---- MODULE Spec2Model ----
(***************************************************************************)
(* The family-tree query interpreter of src/Kariuki.py.                    *)
(*                                                                         *)
(* State: the global dict family_tree, the input line being processed,     *)
(* what that line made the program print, and the position of the read     *)
(* loop.  A dict is modelled as the sequence of its items in insertion     *)
(* order, None as the empty tuple, the parent 2-tuple as a 2-tuple.        *)
(* A line is the sequence of its space-separated tokens.                   *)
(***************************************************************************)
EXTENDS Integers, Sequences, FiniteSets, TLC

VARIABLES family_tree, line, out, pc

vars == <<family_tree, line, out, pc>>

(***************************************************************************)
(* Bounds and input alphabets                                              *)
(***************************************************************************)
\* Largest store the command interpreter (Spec) is driven to.
MaxPeople == 3

\* Largest store the insert-only specification (SpecStore) is driven to.
MaxStore == 4

\* Names are opaque to the program, so the k-th name that ever enters the
\* store is taken to be NameSeq[k].
NameSeq == <<"a", "b", "c", "d", "e", "f", "g", "h", "i">>

None == <<>>

Relations == {"ancestor", "unrelated", "child", "sibling", "cousin"}

\* int(token) for the degree tokens of the input; any other token raises
\* ValueError.
IntTokens == {"-1", "0", "1", "2"}

int(tok) ==
    CASE tok = "-1" -> -1
      [] tok = "0" -> 0
      [] tok = "1" -> 1
      [] tok = "2" -> 2

(***************************************************************************)
(* The dict family_tree                                                    *)
(***************************************************************************)
KeySeq(tree) == [i \in 1..Len(tree) |-> tree[i][1]]

Keys(tree) == {tree[i][1] : i \in 1..Len(tree)}

Has(tree, name) == \E i \in 1..Len(tree) : tree[i][1] = name

Index(tree, name) == CHOOSE i \in 1..Len(tree) : tree[i][1] = name

Get(tree, name) == tree[Index(tree, name)][2]

\* family_tree[name] = parents
add_person(tree, name, parents) ==
    IF Has(tree, name)
    THEN [tree EXCEPT ![Index(tree, name)] = <<name, parents>>]
    ELSE Append(tree, <<name, parents>>)

(***************************************************************************)
(* The ancestor resolver                                                   *)
(***************************************************************************)
EmptyMap == [k \in {} |-> {}]

Without(m, k) == [x \in DOMAIN m \ {k} |-> m[x]]

\* dict.update: the entries of m2 replace those of m1 with the same key.
update(m1, m2) ==
    [k \in DOMAIN m1 \cup DOMAIN m2 |-> IF k \in DOMAIN m2 THEN m2[k] ELSE m1[k]]

\* merge_ancestors losing parent1's sub-map: only parent2's is merged in.
merge_ancestors_dropping(parent1, parent2, degree, parent1_ancestors, parent2_ancestors) ==
    LET seed == update((parent1 :> {degree}), (parent2 :> {degree}))
        a2   == IF parent1 \in DOMAIN parent2_ancestors
                THEN [seed EXCEPT ![parent1] = @ \cup parent2_ancestors[parent1]]
                ELSE seed
    IN  update(a2, Without(parent2_ancestors, parent1))

\* merge_ancestors without the handling of a parent that is an ancestor of
\* the other parent: the sub-maps simply overwrite the seed.
merge_ancestors_overwriting(parent1, parent2, degree, parent1_ancestors, parent2_ancestors) ==
    update(update(update((parent1 :> {degree}), (parent2 :> {degree})),
                  parent1_ancestors), parent2_ancestors)

\* The merge of the two parents' sub-maps into the map of a person whose
\* parents are parent1 and parent2 (both sub-maps are dicts here).
merge_ancestors(parent1, parent2, degree, parent1_ancestors, parent2_ancestors) ==
    LET seed == update((parent1 :> {degree}), (parent2 :> {degree}))
        \* if parent2 in parent1_ancestors: += and del
        hit1 == parent2 \in DOMAIN parent1_ancestors
        a1   == IF hit1
                THEN [seed EXCEPT ![parent2] = @ \cup parent1_ancestors[parent2]]
                ELSE seed
        m1   == IF hit1 THEN Without(parent1_ancestors, parent2)
                ELSE parent1_ancestors
        \* if parent1 in parent2_ancestors: += and del
        hit2 == parent1 \in DOMAIN parent2_ancestors
        a2   == IF hit2
                THEN [a1 EXCEPT ![parent1] = @ \cup parent2_ancestors[parent1]]
                ELSE a1
        m2   == IF hit2 THEN Without(parent2_ancestors, parent1)
                ELSE parent2_ancestors
    IN  update(update(a2, m1), m2)

\* _get_ancestors(person, degree) on the store `tree`.  The result is
\* [status, map]: status "ok" with the dict returned, "None" for the None
\* returned for an unknown person, "TypeError" for `x in None`, and
\* "RecursionError" once the recursion is deeper than the store has people,
\* which only a cycle of parent links can make it and which then never ends
\* short of the interpreter's recursion limit.  A list of degrees is modelled
\* as the set of its elements: the program only tests membership in it and
\* takes its minimum.
RECURSIVE _get_ancestors(_, _, _)
_get_ancestors(tree, person, degree) ==
    IF ~Has(tree, person) THEN [status |-> "None", map |-> EmptyMap]
    ELSE IF degree > Len(tree) THEN [status |-> "RecursionError", map |-> EmptyMap]
    ELSE IF Get(tree, person) = None THEN [status |-> "ok", map |-> EmptyMap]
    ELSE
        LET parent1 == Get(tree, person)[1]
            parent2 == Get(tree, person)[2]
            r1 == _get_ancestors(tree, parent1, degree + 1)
            r2 == _get_ancestors(tree, parent2, degree + 1)
        IN  IF r1.status \in {"RecursionError", "TypeError"}
            THEN [status |-> r1.status, map |-> EmptyMap]
            ELSE IF r2.status \in {"RecursionError", "TypeError"}
            THEN [status |-> r2.status, map |-> EmptyMap]
            ELSE IF r1.status = "None" \/ r2.status = "None"
            THEN [status |-> "TypeError", map |-> EmptyMap]
            ELSE [status |-> "ok",
                  map |-> merge_ancestors(parent1, parent2, degree, r1.map, r2.map)]

\* get_ancestors(person, degree): the names whose degrees hold `degree`, or
\* all of them for degree -1.  A list in the program, a set here: its users
\* test membership, intersect or sort it.
get_ancestors(tree, person, degree) ==
    LET ancestor_degrees == _get_ancestors(tree, person, 0).map
    IN  {ancestor \in DOMAIN ancestor_degrees :
            degree \in ancestor_degrees[ancestor] \/ degree = -1}

is_ancestor(tree, ancestor, descendant, degree) ==
    ancestor \in get_ancestors(tree, descendant, degree)

\* is_unrelated without the test `person1 in ancestors2`.
is_unrelated_one_way(tree, person1, person2) ==
    LET ancestors1 == get_ancestors(tree, person1, -1)
        ancestors2 == get_ancestors(tree, person2, -1)
    IN  ~(\/ person2 \in ancestors1
          \/ person1 = person2
          \/ ancestors1 \cap ancestors2 # {})

is_unrelated(tree, person1, person2) ==
    LET ancestors1 == get_ancestors(tree, person1, -1)
        ancestors2 == get_ancestors(tree, person2, -1)
    IN  ~(\/ person2 \in ancestors1
          \/ person1 \in ancestors2
          \/ person1 = person2
          \/ ancestors1 \cap ancestors2 # {})

get_unrelated(tree, person) ==
    {name \in Keys(tree) : is_unrelated(tree, name, person)}

Parents(tree, name) == {Get(tree, name)[i] : i \in 1..Len(Get(tree, name))}

is_child(tree, child, parent) ==
    IF Get(tree, child) = None THEN FALSE ELSE parent \in Parents(tree, child)

get_children(tree, parent) ==
    {name \in Keys(tree) : is_child(tree, name, parent)}

\* The program returns False or the set of shared parents; only its truth
\* value is used.
is_sibling(tree, sibling, person) ==
    /\ sibling # person
    /\ Get(tree, sibling) # None
    /\ Get(tree, person) # None
    /\ Parents(tree, sibling) \cap Parents(tree, person) # {}

get_siblings(tree, person) ==
    {name \in Keys(tree) : is_sibling(tree, name, person)}

Min(S) == CHOOSE x \in S : \A y \in S : x <= y

\* The cousin degree the degree filter of get_cousins computes for a candidate.
cousin_degree(tree, person, cousin) ==
    LET common_ancestors == get_ancestors(tree, person, -1)
                                \cap get_ancestors(tree, cousin, -1)
        ancestor_degrees1 == _get_ancestors(tree, person, 0).map
        ancestor_degrees2 == _get_ancestors(tree, cousin, 0).map
        ancestor_degrees == [k \in common_ancestors |->
            IF Min(ancestor_degrees1[k]) <= Min(ancestor_degrees2[k])
            THEN Min(ancestor_degrees1[k]) ELSE Min(ancestor_degrees2[k])]
    IN  Min({ancestor_degrees[k] : k \in common_ancestors})

\* all_cousins without the test `not is_ancestor(person, name)`.
all_cousins_with_descendants(tree, person) ==
    {name \in Keys(tree) :
        /\ name # person
        /\ ~is_unrelated(tree, name, person)
        /\ ~is_ancestor(tree, name, person, -1)}

all_cousins(tree, person) ==
    {name \in Keys(tree) :
        /\ name # person
        /\ ~is_unrelated(tree, name, person)
        /\ ~is_ancestor(tree, name, person, -1)
        /\ ~is_ancestor(tree, person, name, -1)}

get_cousins(tree, person, degree) ==
    IF degree = -1 THEN all_cousins(tree, person)
    ELSE {cousin \in all_cousins(tree, person) :
            cousin_degree(tree, person, cousin) = degree}

is_cousin(tree, cousin, person, degree) ==
    cousin \in get_cousins(tree, person, degree)

(***************************************************************************)
(* The query handlers                                                      *)
(***************************************************************************)
\* handle_E_query without the test `names[2] not in family_tree`.
handle_E_query_overwriting(tree, names) ==
    LET t1 == IF ~Has(tree, names[1]) THEN add_person(tree, names[1], None)
              ELSE tree
        t2 == IF ~Has(t1, names[2]) THEN add_person(t1, names[2], None)
              ELSE t1
    IN  IF Len(names) = 3
        THEN add_person(t2, names[3], <<names[1], names[2]>>)
        ELSE t2

\* handle_E_query that adds the child only, never its parents.
handle_E_query_child_only(tree, names) ==
    IF Len(names) = 3 /\ ~Has(tree, names[3])
    THEN add_person(tree, names[3], <<names[1], names[2]>>)
    ELSE tree

handle_E_query(tree, names) ==
    LET t1 == IF ~Has(tree, names[1]) THEN add_person(tree, names[1], None)
              ELSE tree
        t2 == IF ~Has(t1, names[2]) THEN add_person(t1, names[2], None)
              ELSE t1
    IN  IF Len(names) = 3 /\ ~Has(t2, names[3])
        THEN add_person(t2, names[3], <<names[1], names[2]>>)
        ELSE t2

\* Whether a call of _get_ancestors made for one of `people` raises.
Raises(tree, people) ==
    \E p \in people : _get_ancestors(tree, p, 0).status # "ok"

\* The people get_cousins(person) resolves: everybody, once there is somebody
\* other than person to test.
cousins_resolve(tree, person) ==
    IF Keys(tree) \ {person} = {} THEN {} ELSE Keys(tree)

Rank(name) == CHOOSE i \in 1..Len(NameSeq) : NameSeq[i] = name

\* sorted(result), one printed line per name ("a" < "b" < ... as NameSeq).
RECURSIVE sorted(_)
sorted(result) ==
    IF result = {} THEN <<>>
    ELSE LET first == CHOOSE x \in result : \A y \in result : Rank(x) <= Rank(y)
         IN  <<<<first>>>> \o sorted(result \ {first})

\* handle_X_query(relation, names, degree): what it prints, and whether it
\* raises instead.
handle_X_query(tree, relation, names, degree) ==
    LET result ==
            CASE relation = "ancestor"  -> is_ancestor(tree, names[1], names[2], -1)
              [] relation = "unrelated" -> is_unrelated(tree, names[1], names[2])
              [] relation = "child"     -> is_child(tree, names[1], names[2])
              [] relation = "sibling"   -> is_sibling(tree, names[1], names[2])
              [] relation = "cousin"    -> is_cousin(tree, names[1], names[2], degree)
              [] OTHER -> FALSE
        resolved ==
            CASE relation = "ancestor"  -> {names[2]}
              [] relation = "unrelated" -> {names[1], names[2]}
              [] relation = "cousin"    -> cousins_resolve(tree, names[2])
              [] OTHER -> {}
    IN  IF relation \notin Relations
        THEN [out |-> <<<<"Invalid relation:", relation>>>>, raised |-> FALSE]
        ELSE IF Raises(tree, resolved)
        THEN [out |-> <<>>, raised |-> TRUE]
        ELSE [out |-> <<<<IF result THEN "Yes" ELSE "No">>, <<>>>>, raised |-> FALSE]

\* The list handle_W_query prints sorted (a set here).
W_result(tree, relation, name, degree) ==
    CASE relation = "ancestor"  -> get_ancestors(tree, name, -1)
      [] relation = "unrelated" -> get_unrelated(tree, name)
      [] relation = "child"     -> get_children(tree, name)
      [] relation = "sibling"   -> get_siblings(tree, name)
      [] relation = "cousin"    -> get_cousins(tree, name, degree)
      [] OTHER -> {}

handle_W_query(tree, relation, name, degree) ==
    LET result == W_result(tree, relation, name, degree)
        resolved ==
            CASE relation = "ancestor"  -> {name}
              [] relation = "unrelated" -> Keys(tree)
              [] relation = "cousin"    -> cousins_resolve(tree, name)
              [] OTHER -> {}
    IN  IF relation \notin Relations
        THEN [out |-> <<>>, raised |-> FALSE]
        ELSE IF Raises(tree, resolved)
        THEN [out |-> <<>>, raised |-> TRUE]
        ELSE [out |-> (IF result # {} THEN sorted(result) ELSE <<<<"Nobody">>>>)
                        \o <<<<>>>>,
              raised |-> FALSE]

\* What handle_query gives back: the store afterwards, the lines printed, and
\* whether an exception left the handler.
Reply(tree, o) == [tree |-> tree, out |-> o, raised |-> FALSE]

\* The 'X' branch of handle_query.
handle_X_line(tree, query) ==
    LET args   == Tail(query)
        n_args == Len(args)
        echo   == <<query>>
    IN  IF n_args \notin {3, 4}
        THEN Reply(tree, echo \o <<<<"[!] 'X' query takes three or four arguments">>, <<>>>>)
        ELSE IF n_args = 4 /\ args[3] \notin IntTokens
        THEN Reply(tree, echo \o <<<<"[!] Invalid degree:", "-1">>, <<>>>>)
        ELSE LET relation == args[2]
                 degree == IF n_args = 4 THEN int(args[3]) ELSE -1
                 names  == <<args[1], args[n_args]>>
                 r      == handle_X_query(tree, relation, names, degree)
             IN  IF \E i \in 1..2 : ~Has(tree, names[i])
                 THEN Reply(tree, echo \o <<<<"[!] All names must be present in the family tree">>, <<>>>>)
                 ELSE [tree |-> tree, out |-> echo \o r.out, raised |-> r.raised]

\* The 'W' branch of handle_query.
handle_W_line(tree, query) ==
    LET args   == Tail(query)
        n_args == Len(args)
        echo   == <<query>>
    IN  IF n_args \notin {2, 3}
        THEN Reply(tree, echo \o <<<<"[!] 'W' query takes two or three arguments">>, <<>>>>)
        ELSE IF n_args = 3 /\ args[2] \notin IntTokens
        THEN Reply(tree, echo \o <<<<"[!] Invalid degree:", "-1">>, <<>>>>)
        ELSE LET relation == args[1]
                 degree == IF n_args = 3 THEN int(args[2]) ELSE -1
                 name   == args[n_args]
                 r      == handle_W_query(tree, relation, name, degree)
             IN  IF ~Has(tree, name)
                 THEN Reply(tree, echo \o <<<<"[!] is not a member of the family tree", name>>, <<>>>>)
                 ELSE [tree |-> tree, out |-> echo \o r.out, raised |-> r.raised]

\* The 'E' branch with the argument count checked from below only.
handle_E_line_any_arity(tree, query) ==
    LET args   == Tail(query)
        n_args == Len(args)
    IN  IF n_args < 2
        THEN Reply(tree, <<<<"[!] 'E' query takes two or three arguments">>, <<>>>>)
        ELSE [tree |-> handle_E_query(tree, args), out |-> <<>>, raised |-> FALSE]

\* The 'E' branch of handle_query.
handle_E_line(tree, query) ==
    LET args   == Tail(query)
        n_args == Len(args)
    IN  IF n_args # 2 /\ n_args # 3
        THEN Reply(tree, <<<<"[!] 'E' query takes two or three arguments">>, <<>>>>)
        ELSE [tree |-> handle_E_query(tree, args), out |-> <<>>, raised |-> FALSE]

\* handle_query(query)
handle_query(tree, query) ==
    LET query_type == Head(query)
    IN  IF query_type \notin {"E", "X", "W"}
        THEN Reply(tree, <<<<"[!] Invalid query type:", query_type>>, <<"'">>>>)
        ELSE IF query_type = "X" THEN handle_X_line(tree, query)
        ELSE IF query_type = "W" THEN handle_W_line(tree, query)
        ELSE handle_E_line(tree, query)

(***************************************************************************)
(* The input                                                               *)
(***************************************************************************)
\* The store's names in the order they entered it are a prefix of NameSeq.
Canonical(tree) == \A i \in 1..Len(tree) : tree[i][1] = NameSeq[i]

FirstNames(n) == {NameSeq[i] : i \in 1..(IF n <= Len(NameSeq) THEN n ELSE Len(NameSeq))}

\* Well-formed E lines: two or three names, known or new.
ELines(tree, bound) ==
    {l \in {<<"E", a, b>> : a, b \in FirstNames(Len(tree) + 2)}
           \cup {<<"E", a, b, c>> : a, b, c \in FirstNames(Len(tree) + 3)} :
        /\ Canonical(handle_E_query(tree, Tail(l)))
        /\ Len(handle_E_query(tree, Tail(l))) <= bound}

\* The names a query is asked about: everybody known and one unknown name.
QNames(tree) == FirstNames(Len(tree) + 1)

DegreeTokens == {"0", "1", "x"}

RelationTokens == Relations \cup {"parent"}

XLines(tree) ==
    {<<"X", a, r, b>> : a, b \in QNames(tree), r \in RelationTokens}
    \cup {<<"X", a, r, d, b>> :
            a, b \in QNames(tree), r \in RelationTokens, d \in DegreeTokens}
    \cup {<<"X", r, a>> : a \in QNames(tree), r \in RelationTokens}

WLines(tree) ==
    {<<"W", r, a>> : a \in QNames(tree), r \in RelationTokens}
    \cup {<<"W", r, d, a>> :
            a \in QNames(tree), r \in RelationTokens, d \in DegreeTokens}
    \cup {<<"W", r>> : r \in RelationTokens}

\* Lines handle_query rejects before looking at the store.
BadLines(tree) ==
    {<<"A", a, b>> : a, b \in QNames(tree)}
    \cup {<<"E", a>> : a \in QNames(tree)}
    \cup {<<"E", a, a, a, a>> : a \in QNames(tree)}

(***************************************************************************)
(* The read loop                                                           *)
(***************************************************************************)
\* `for line in sys.stdin`: the next line is any line of the input alphabet.
Read(l) ==
    /\ line' = l
    /\ out' = <<>>
    /\ pc' = "handling"
    /\ UNCHANGED family_tree

ReadE == pc = "loop" /\ \E l \in ELines(family_tree, MaxPeople) : Read(l)

ReadX == pc = "loop" /\ \E l \in XLines(family_tree) : Read(l)

ReadW == pc = "loop" /\ \E l \in WLines(family_tree) : Read(l)

ReadBad == pc = "loop" /\ \E l \in BadLines(family_tree) : Read(l)

\* handle_query(line)
Handle ==
    /\ pc = "handling"
    /\ \E r \in {handle_query(family_tree, line)} :
           /\ family_tree' = r.tree
           /\ out' = r.out
           /\ pc' = IF r.raised THEN "crashed" ELSE "handled"
    /\ UNCHANGED line

\* Back to the head of `for line in sys.stdin`.
NextLine ==
    /\ pc = "handled"
    /\ pc' = "loop"
    /\ line' = <<>>
    /\ out' = <<>>
    /\ UNCHANGED family_tree

Init ==
    /\ family_tree = <<>>
    /\ line = <<>>
    /\ out = <<>>
    /\ pc = "loop"

Next == ReadE \/ ReadX \/ ReadW \/ ReadBad \/ Handle \/ NextLine

\* The command interpreter on every input line of the alphabet.
Spec == Init /\ [][Next]_vars

\* One whole iteration of the loop on an E line: the stores that sequences of
\* E commands build, up to MaxStore people.
Insert ==
    /\ pc = "loop"
    /\ \E l \in ELines(family_tree, MaxStore) :
          family_tree' = handle_query(family_tree, l).tree
    /\ UNCHANGED <<line, out, pc>>

NextStore == Insert

SpecStore == Init /\ [][NextStore]_vars

\* An input file of six E lines, read in any order and any number of times:
\* a is the founder, d descends from a both through b and through b's child
\* c, and g is a's great-grandchild on a line of its own.
LineageScript ==
    { <<"E", "a", "a", "b">>, <<"E", "b", "b", "c">>, <<"E", "b", "c", "d">>,
      <<"E", "a", "a", "e">>, <<"E", "e", "e", "f">>, <<"E", "f", "f", "g">> }

InsertScripted ==
    /\ pc = "loop"
    /\ \E l \in LineageScript :
          family_tree' = handle_query(family_tree, l).tree
    /\ UNCHANGED <<line, out, pc>>

NextLineage == InsertScripted

SpecLineage == Init /\ [][NextLineage]_vars
(***************************************************************************)
(* Genealogy by definition: what the claims measure the program against    *)
(***************************************************************************)
\* The people exactly n parent links above person.
RECURSIVE LinksAbove(_, _, _)
LinksAbove(tree, person, n) ==
    IF n = 0 THEN {person}
    ELSE UNION {Parents(tree, q) : q \in LinksAbove(tree, person, n - 1) \cap Keys(tree)}

\* The degrees at which k is an ancestor of person: parent links minus one.
TrueDegrees(tree, person, k) ==
    {d \in 0..Len(tree) : k \in LinksAbove(tree, person, d + 1)}

TrueAncestors(tree, person) ==
    UNION {LinksAbove(tree, person, n) : n \in 1..Len(tree)}

TrueCousinDegree(tree, person, cousin) ==
    Min({ IF Min(TrueDegrees(tree, person, k)) <= Min(TrueDegrees(tree, cousin, k))
          THEN Min(TrueDegrees(tree, person, k))
          ELSE Min(TrueDegrees(tree, cousin, k)) :
          k \in TrueAncestors(tree, person) \cap TrueAncestors(tree, cousin) })

TrueCousins(tree, person) ==
    {c \in Keys(tree) \ {person} :
        /\ c \notin TrueAncestors(tree, person)
        /\ person \notin TrueAncestors(tree, c)
        /\ TrueAncestors(tree, person) \cap TrueAncestors(tree, c) # {}}

People == Keys(family_tree)

AncestorMap(person) == _get_ancestors(family_tree, person, 0).map

(***************************************************************************)
(* C1                                                                      *)
(***************************************************************************)
\* C1: in every store built by E commands, the ancestor map of every person
\* gives each ancestor the set of all degrees at which it reaches the person,
\* and get_ancestors(p, d) returns the ancestor for each of these degrees.
C1_AllDegreesPresent ==
    \A p \in People : \A k \in TrueAncestors(family_tree, p) :
        /\ k \in DOMAIN AncestorMap(p)
        /\ AncestorMap(p)[k] = TrueDegrees(family_tree, p, k)
        /\ \A d \in TrueDegrees(family_tree, p, k) :
              k \in get_ancestors(family_tree, p, d)

(***************************************************************************)
(* C2                                                                      *)
(***************************************************************************)
\* C2: get_ancestors(p) without a degree is exactly the set of people one or
\* more parent links above p, and never holds p itself.
C2_AncestorSetComplete ==
    \A p \in People :
        /\ get_ancestors(family_tree, p, -1) = TrueAncestors(family_tree, p)
        /\ p \notin get_ancestors(family_tree, p, -1)

\* A store where somebody has an ancestor on two lineages of different length
\* and both parents have ancestors of their own.
C2_Witness ==
    \E p \in People : \E k \in TrueAncestors(family_tree, p) :
        /\ Cardinality(TrueDegrees(family_tree, p, k)) >= 2
        /\ \A q \in Parents(family_tree, p) : TrueAncestors(family_tree, q) # {}
        /\ Cardinality(Parents(family_tree, p)) = 2

(***************************************************************************)
(* C3                                                                      *)
(***************************************************************************)
AncestorEitherWay(x, y) ==
    is_ancestor(family_tree, x, y, -1) \/ is_ancestor(family_tree, y, x, -1)

Count(b) == IF b THEN 1 ELSE 0

\* C3 as claimed: of ancestor either way, sibling, cousin at some degree and
\* unrelated, exactly one holds for any two distinct members.
C3_FourWayPartition ==
    \A x, y \in People : x # y =>
        Count(AncestorEitherWay(x, y))
        + Count(is_sibling(family_tree, x, y))
        + Count(is_cousin(family_tree, x, y, -1))
        + Count(is_unrelated(family_tree, x, y)) = 1

\* C3: of ancestor either way, cousin at some degree and unrelated, exactly
\* one holds for any two distinct members; siblings are no class of their
\* own: every pair of siblings is in the ancestor class or the cousin class.
C3_ThreeWayPartition ==
    \A x, y \in People : x # y =>
        /\ Count(AncestorEitherWay(x, y))
           + Count(is_cousin(family_tree, x, y, -1))
           + Count(is_unrelated(family_tree, x, y)) = 1
        /\ is_sibling(family_tree, x, y) =>
              AncestorEitherWay(x, y) \/ is_cousin(family_tree, x, y, -1)

\* A store with siblings that are cousins and with siblings one of whom is
\* the other's ancestor.
C3_Witness ==
    /\ \E x, y \in People :
          is_sibling(family_tree, x, y) /\ is_cousin(family_tree, x, y, -1)
    /\ \E x, y \in People :
          is_sibling(family_tree, x, y) /\ AncestorEitherWay(x, y)

(***************************************************************************)
(* C4                                                                      *)
(***************************************************************************)
\* C4: get_cousins(p, d) for d >= 0 is exactly the set of members other than
\* p, related to p, neither ancestor nor descendant of p, whose cousin degree
\* (the least generational distance of a common ancestor to either of the
\* two) is d.
C4_CousinsByTrueDegree ==
    \A p \in People : \A d \in 0..Len(family_tree) :
        get_cousins(family_tree, p, d) =
            {c \in TrueCousins(family_tree, p) :
                TrueCousinDegree(family_tree, p, c) = d}

(***************************************************************************)
(* C5                                                                      *)
(***************************************************************************)
IsE3(l) == Len(l) = 4 /\ l[1] = "E"

\* C5 as claimed: after any command E a b c, get_ancestors(c, 0) = {a, b}.
C5_ParentsAfterAnyInsert ==
    (pc = "handled" /\ IsE3(line)) =>
        get_ancestors(family_tree, line[4], 0) = {line[2], line[3]}

\* C5: after a command E a b c whose c was not in the store before it and is
\* neither a nor b, get_ancestors(c, 0) = {a, b}.
C5_ParentsAfterFirstInsert ==
    [][(/\ pc = "handling"
        /\ IsE3(line)
        /\ ~Has(family_tree, line[4])
        /\ line[4] \notin {line[2], line[3]})
       => get_ancestors(family_tree', line[4], 0) = {line[2], line[3]}]_vars

\* E a b c has just added c, whose parent b has the other parent a among its
\* own ancestors.
C5_Witness ==
    /\ pc = "handled"
    /\ IsE3(line)
    /\ family_tree[Len(family_tree)] = <<line[4], <<line[2], line[3]>>>>
    /\ line[2] # line[3]
    /\ \/ line[2] \in get_ancestors(family_tree, line[3], -1)
       \/ line[3] \in get_ancestors(family_tree, line[2], -1)
    /\ get_ancestors(family_tree, line[4], 0) = {line[2], line[3]}

(***************************************************************************)
(* C6                                                                      *)
(***************************************************************************)
\* C6: no step removes, moves or changes an entry of family_tree.
C6_AppendOnly ==
    [][\A i \in 1..Len(family_tree) :
          /\ i <= Len(family_tree')
          /\ family_tree'[i] = family_tree[i]]_vars

\* E a b c has been handled for a c that already had other parents.
C6_Witness ==
    /\ pc = "handled"
    /\ IsE3(line)
    /\ Get(family_tree, line[4]) # None
    /\ Get(family_tree, line[4]) # <<line[2], line[3]>>

(***************************************************************************)
(* C7                                                                      *)
(***************************************************************************)
\* C7: is_sibling and is_unrelated give the same truth value with their two
\* arguments exchanged, for any two members, equal or not.
C7_Symmetry ==
    \A x, y \in People :
        /\ is_sibling(family_tree, x, y) <=> is_sibling(family_tree, y, x)
        /\ is_unrelated(family_tree, x, y) <=> is_unrelated(family_tree, y, x)

\* A store with half-siblings, with two unrelated people, and with a founder
\* and its descendant, who are related.
C7_Witness ==
    /\ \E x, y \in People :
          /\ is_sibling(family_tree, x, y)
          /\ Parents(family_tree, x) # Parents(family_tree, y)
    /\ \E x, y \in People : x # y /\ is_unrelated(family_tree, x, y)
    /\ \E x, y \in People :
          /\ Get(family_tree, x) = None
          /\ x \in get_ancestors(family_tree, y, -1)

(***************************************************************************)
(* C8                                                                      *)
(***************************************************************************)
\* C8: only the handling of an E line of two or three names changes
\* family_tree; X, W and rejected lines leave it as it is.
C8_OnlyInsertWrites ==
    [][family_tree' # family_tree =>
          (pc = "handling" /\ line[1] = "E" /\ Len(line) \in {3, 4})]_vars

\* A W ancestor query has been answered for a person one of whose parents is
\* an ancestor of the other, so that the resolver merged and deleted in its
\* sub-maps.
C8_Witness ==
    /\ pc = "handled"
    /\ Len(line) = 3 /\ line[1] = "W" /\ line[2] = "ancestor"
    /\ Has(family_tree, line[3])
    /\ Get(family_tree, line[3]) # None
    /\ Get(family_tree, line[3])[2]
          \in get_ancestors(family_tree, Get(family_tree, line[3])[1], -1)
    /\ Len(out) > 2

(***************************************************************************)
(* C9                                                                      *)
(***************************************************************************)
\* C9: an ancestor query that carries a degree d is answered with the degree
\* filter: X prints Yes iff a is in get_ancestors(b, d), W prints exactly
\* get_ancestors(a, d).
C9_DegreeFilterApplied ==
    /\ (/\ pc = "handled"
        /\ Len(line) = 5 /\ line[1] = "X" /\ line[3] = "ancestor"
        /\ line[4] \in IntTokens
        /\ Has(family_tree, line[2]) /\ Has(family_tree, line[5]))
       => (out[2] = <<"Yes">>
             <=> line[2] \in get_ancestors(family_tree, line[5], int(line[4])))
    /\ (/\ pc = "handled"
        /\ Len(line) = 4 /\ line[1] = "W" /\ line[2] = "ancestor"
        /\ line[3] \in IntTokens
        /\ Has(family_tree, line[4]))
       => out = <<line>>
                \o (IF get_ancestors(family_tree, line[4], int(line[3])) # {}
                    THEN sorted(get_ancestors(family_tree, line[4], int(line[3])))
                    ELSE <<<<"Nobody">>>>)
                \o <<<<>>>>

(***************************************************************************)
(* C10                                                                     *)
(***************************************************************************)
\* C10: every recorded parent is a key that entered the store before the
\* child did, and the resolver, called on any known person, returns a map:
\* it meets no unknown name and does not recurse without end.
C10_WellFounded ==
    /\ \A i \in 1..Len(family_tree) :
          \A parent \in Parents(family_tree, family_tree[i][1]) :
              \E j \in 1..(i - 1) : family_tree[j][1] = parent
    /\ \A p \in People : _get_ancestors(family_tree, p, 0).status = "ok"
    /\ pc # "crashed"

\* A query has been answered about a person whose two parents are different
\* people and one of whose parents has parents too.
C10_Witness ==
    /\ pc = "handled"
    /\ line[1] \in {"X", "W"}
    /\ Has(family_tree, line[Len(line)])
    /\ Cardinality(Parents(family_tree, line[Len(line)])) = 2
    /\ \E q \in Parents(family_tree, line[Len(line)]) : Get(family_tree, q) # None
    /\ Len(out) > 2
====
